---- MODULE Spec2Model ----
(***************************************************************************)
(* A model of the video analysis pipeline: discovery of the video files,   *)
(* segmentation into chunks, per-chunk analysis with retry/backoff,        *)
(* key-frame extraction and timecode rebasing, combination and persistence.*)
(*                                                                         *)
(* Text is modelled as a sequence of characters (timecodes, file           *)
(* extensions, error messages) or of lexical tokens (analysis texts); a    *)
(* character is a one-element name such as "0", ":" or "EN" (en dash).     *)
(***************************************************************************)
EXTENDS Integers, Sequences, FiniteSets, TLC

(***************************************************************************)
(* Generic sequence helpers (Python str / list primitives).                *)
(***************************************************************************)

\* s[i:] of Python, 1-based: the suffix of s starting at position i.
Drop(s, i) == SubSeq(s, i, Len(s))

\* s.startswith(sub) at position i (1-based).
MatchAt(sub, s, i) ==
    /\ i >= 1
    /\ i + Len(sub) - 1 <= Len(s)
    /\ SubSeq(s, i, i + Len(sub) - 1) = sub

\* s.find(sub) of Python, 1-based; 0 when sub does not occur in s.
Find(sub, s) ==
    LET hits == {i \in 1..(Len(s) + 1) : MatchAt(sub, s, i)}
    IN  IF hits = {} THEN 0 ELSE CHOOSE i \in hits : \A j \in hits : i <= j

\* `sub in s` of Python.
Contains(sub, s) == Find(sub, s) # 0

\* s.split(sep)[0]: the part of s before the first occurrence of sep.
SplitHead(s, sep) ==
    IF Contains(sep, s) THEN SubSeq(s, 1, Find(sep, s) - 1) ELSE s

\* s.split(sep) for a one-character separator.
RECURSIVE Split(_, _)
Split(s, c) ==
    IF Contains(<<c>>, s)
    THEN <<SubSeq(s, 1, Find(<<c>>, s) - 1)>> \o Split(Drop(s, Find(<<c>>, s) + 1), c)
    ELSE <<s>>

\* The whitespace characters of the modelled alphabet.
IsSpace(c) == c = " "

\* s.strip(): leading and trailing whitespace removed.
RECURSIVE LStrip(_)
LStrip(s) == IF Len(s) > 0 /\ IsSpace(s[1]) THEN LStrip(Tail(s)) ELSE s

RECURSIVE RStrip(_)
RStrip(s) ==
    IF Len(s) > 0 /\ IsSpace(s[Len(s)]) THEN RStrip(SubSeq(s, 1, Len(s) - 1)) ELSE s

Strip(s) == LStrip(RStrip(s))

(***************************************************************************)
(* Timecode Normalizer: ResultCombiner._sanitize_timecode_for_ffmpeg,      *)
(* timecode_to_seconds and seconds_to_timecode.                            *)
(***************************************************************************)

Digits == <<"0", "1", "2", "3", "4", "5", "6", "7", "8", "9">>

IsDigit(c) == \E i \in 1..10 : Digits[i] = c

DigitVal(c) == (CHOOSE i \in 1..10 : Digits[i] = c) - 1

\* The value of a non-empty sequence of decimal digits.
RECURSIVE DecVal(_)
DecVal(ds) ==
    IF Len(ds) = 0 THEN 0
    ELSE 10 * DecVal(SubSeq(ds, 1, Len(ds) - 1)) + DigitVal(ds[Len(ds)])

AllDigits(s) == \A i \in 1..Len(s) : IsDigit(s[i])

\* int(float(p)) over the modelled alphabet: surrounding whitespace is
\* ignored, an optional sign, digits with an optional fraction (at least one
\* digit in all); the fraction is truncated.  ok = FALSE stands for the
\* ValueError float() raises on anything else.
IntOfFloat(p) ==
    LET q     == Strip(p)
        neg   == Len(q) > 0 /\ q[1] = "-"
        body  == IF Len(q) > 0 /\ q[1] \in {"-", "+"} THEN Tail(q) ELSE q
        dot   == Find(<<".">>, body)
        whole == IF dot = 0 THEN body ELSE SubSeq(body, 1, dot - 1)
        frac  == IF dot = 0 THEN <<>> ELSE Drop(body, dot + 1)
        ok    == /\ AllDigits(whole)
                 /\ AllDigits(frac)
                 /\ Len(whole) + Len(frac) > 0
    IN  [ok |-> ok, val |-> IF ok THEN (IF neg THEN -DecVal(whole) ELSE DecVal(whole)) ELSE 0]

\* The range separators, in the order the loop tries them.
RangeSeparators ==
    << <<"-">>, <<"EN">>, <<"EM">>, <<" ", "t", "o", " ">>, <<"ARROW">>,
       <<">", ">">>, <<"ARROW", " ">> >>

\* The first separator of the list, in list order, that occurs in the timecode
\* (0 when none does).
FirstListedSeparator(timecode) ==
    LET hits == {k \in 1..Len(RangeSeparators) : Contains(RangeSeparators[k], timecode)}
    IN  IF hits = {} THEN 0 ELSE CHOOSE k \in hits : \A j \in hits : k <= j

_sanitize_timecode_for_ffmpeg(timecode) ==
    IF Len(timecode) = 0 THEN <<"0", "0", ":", "0", "0", ":", "0", "0">>
    ELSE LET k == FirstListedSeparator(timecode)
         IN  IF k = 0 THEN Strip(timecode)
             ELSE Strip(Strip(SplitHead(timecode, RangeSeparators[k])))

timecode_to_seconds(timecode) ==
    LET t     == _sanitize_timecode_for_ffmpeg(timecode)
        parts == Split(t, ":")
        n     == [i \in 1..Len(parts) |-> IntOfFloat(parts[i])]
    IN  IF Len(parts) = 3
        THEN IF n[1].ok /\ n[2].ok /\ n[3].ok
             THEN n[1].val * 3600 + n[2].val * 60 + n[3].val ELSE 0
        ELSE IF Len(parts) = 2
        THEN IF n[1].ok /\ n[2].ok THEN n[1].val * 60 + n[2].val ELSE 0
        ELSE IF n[1].ok THEN n[1].val ELSE 0

\* str(n) for n >= 0.
RECURSIVE DecStr(_)
DecStr(n) == IF n < 10 THEN <<Digits[n + 1]>> ELSE DecStr(n \div 10) \o <<Digits[(n % 10) + 1]>>

\* A faulty format: exactly two digits, the higher ones dropped.
TwoDigits(n) == <<Digits[((n \div 10) % 10) + 1], Digits[(n % 10) + 1]>>

\* f"{n:02d}" for n >= 0.
Pad2(n) == IF n < 10 THEN <<"0">> \o DecStr(n) ELSE DecStr(n)

seconds_to_timecode(seconds) ==
    LET sec == IF seconds < 0 THEN 0 ELSE seconds
        h   == sec \div 3600
        m   == (sec % 3600) \div 60
        s   == sec % 60
    IN  Pad2(h) \o <<":">> \o Pad2(m) \o <<":">> \o Pad2(s)

(***************************************************************************)
(* Structured-Output Extractor: ResultCombiner.extract_key_frames_json.    *)
(*                                                                         *)
(* An analysis text is a sequence of lexical tokens, each a record with a  *)
(* field t: prose words, whitespace, the code fence ```, the word json,    *)
(* and the JSON tokens { } [ ] , a scalar (atom), the key "key_frames":    *)
(* (kfkey), another key (key) and the members of one key-frame object      *)
(* (fields, carrying the member values in m).                              *)
(***************************************************************************)

TProse  == [t |-> "prose"]
TWs     == [t |-> "ws"]
TFence  == [t |-> "fence"]
TJson   == [t |-> "json"]
TLBrace == [t |-> "{"]
TRBrace == [t |-> "}"]
TLBrack == [t |-> "["]
TRBrack == [t |-> "]"]
TComma  == [t |-> ","]
TAtom   == [t |-> "atom"]
TKfKey  == [t |-> "kfkey"]
TKey    == [t |-> "key"]
TFields(m) == [t |-> "fields", m |-> m]

\* Python's None.
None == [type |-> "None"]

\* Positions of a token, smallest first.
FirstAfter(tok, text, i) ==
    LET hits == {k \in (i + 1)..Len(text) : text[k] = tok}
    IN  IF hits = {} THEN 0 ELSE CHOOSE k \in hits : \A j \in hits : k <= j

\* The tokens of a text that are not whitespace (JSON ignores whitespace
\* between tokens).
RECURSIVE NoWs(_)
NoWs(text) ==
    IF Len(text) = 0 THEN <<>>
    ELSE IF text[1] = TWs THEN NoWs(Tail(text))
    ELSE <<text[1]>> \o NoWs(Tail(text))

\* json.loads as a pushdown parser over the tokens.  A dict is
\* [type |-> "dict", m |-> members], a list [type |-> "list", items |-> values],
\* a scalar [type |-> "atom"].  The parser state holds the stack of open
\* containers, the finished top-level value and whether a JSONDecodeError
\* occurred.  A frame expects "first" (a value/member or the closing
\* bracket), "next" (a value/member, after a comma), "value" (a dict's value,
\* after its key) or "sep" (a comma or the closing bracket).
ParseStart == [stack |-> <<>>, done |-> FALSE, val |-> None, err |-> FALSE]

ParseError == [stack |-> <<>>, done |-> FALSE, val |-> None, err |-> TRUE]

\* A complete value v is handed to the innermost open container; a later
\* member with the same key wins.
CompleteValue(stack, v) ==
    IF Len(stack) = 0 THEN [stack |-> <<>>, done |-> TRUE, val |-> v, err |-> FALSE]
    ELSE LET top  == stack[Len(stack)]
             rest == SubSeq(stack, 1, Len(stack) - 1)
             top2 == IF top.kind = "list"
                     THEN [top EXCEPT !.items = Append(@, v), !.expect = "sep"]
                     ELSE [top EXCEPT !.m = (top.key :> v) @@ @, !.expect = "sep"]
         IN  [stack |-> Append(rest, top2), done |-> FALSE, val |-> None, err |-> FALSE]

\* The parser can take a value here.
ValueAllowed(st) ==
    IF Len(st.stack) = 0 THEN ~st.done
    ELSE LET top == st.stack[Len(st.stack)]
         IN  \/ top.kind = "list" /\ top.expect \in {"first", "next"}
             \/ top.kind = "dict" /\ top.expect = "value"

\* The innermost open container is of this kind and expects one of these.
TopIs(st, kind, expects) ==
    /\ Len(st.stack) > 0
    /\ st.stack[Len(st.stack)].kind = kind
    /\ st.stack[Len(st.stack)].expect \in expects

ReplaceTop(st, top) ==
    [st EXCEPT !.stack = Append(SubSeq(st.stack, 1, Len(st.stack) - 1), top)]

Top(st) == st.stack[Len(st.stack)]

Popped(st) == SubSeq(st.stack, 1, Len(st.stack) - 1)

NewFrame(kind) == [kind |-> kind, items |-> <<>>, m |-> <<>>, key |-> "", expect |-> "first"]

\* A scalar.
OnAtom(st) ==
    IF ValueAllowed(st) THEN CompleteValue(st.stack, [type |-> "atom"]) ELSE ParseError

\* [ or {
OnOpen(st, kind) ==
    IF ValueAllowed(st) THEN [st EXCEPT !.stack = Append(@, NewFrame(kind))] ELSE ParseError

\* ]
OnCloseList(st) ==
    IF TopIs(st, "list", {"first", "sep"})
    THEN CompleteValue(Popped(st), [type |-> "list", items |-> Top(st).items])
    ELSE ParseError

\* }
OnCloseDict(st) ==
    IF TopIs(st, "dict", {"first", "sep"})
    THEN CompleteValue(Popped(st), [type |-> "dict", m |-> Top(st).m])
    ELSE ParseError

OnComma(st) ==
    IF TopIs(st, "list", {"sep"}) \/ TopIs(st, "dict", {"sep"})
    THEN ReplaceTop(st, [Top(st) EXCEPT !.expect = "next"])
    ELSE ParseError

\* "key_frames": or another key
OnKey(st, key) ==
    IF TopIs(st, "dict", {"first", "next"})
    THEN ReplaceTop(st, [Top(st) EXCEPT !.key = key, !.expect = "value"])
    ELSE ParseError

\* The members of a key-frame object.
OnFields(st, m) ==
    IF TopIs(st, "dict", {"first", "next"})
    THEN ReplaceTop(st, [Top(st) EXCEPT !.m = m @@ @, !.expect = "sep"])
    ELSE ParseError

ParseStep(st, tok) ==
    CASE st.err -> st
      [] ~st.err /\ tok.t = "atom"   -> OnAtom(st)
      [] ~st.err /\ tok.t = "["      -> OnOpen(st, "list")
      [] ~st.err /\ tok.t = "{"      -> OnOpen(st, "dict")
      [] ~st.err /\ tok.t = "]"      -> OnCloseList(st)
      [] ~st.err /\ tok.t = "}"      -> OnCloseDict(st)
      [] ~st.err /\ tok.t = ","      -> OnComma(st)
      [] ~st.err /\ tok.t = "kfkey"  -> OnKey(st, "key_frames")
      [] ~st.err /\ tok.t = "key"    -> OnKey(st, "other")
      [] ~st.err /\ tok.t = "fields" -> OnFields(st, tok.m)
      [] OTHER -> ParseError

RECURSIVE ParseRun(_, _)
ParseRun(st, toks) ==
    IF Len(toks) = 0 THEN st ELSE ParseRun(ParseStep(st, toks[1]), Tail(toks))

\* json.loads(candidate): the whole candidate must be one JSON value; ok =
\* FALSE stands for the JSONDecodeError.
json_loads(candidate) ==
    LET r == ParseRun(ParseStart, NoWs(candidate))
    IN  IF ~r.err /\ r.done THEN [ok |-> TRUE, val |-> r.val]
        ELSE [ok |-> FALSE, val |-> None]

\* isinstance(data, dict) and "key_frames" in data
IsDictWithKeyFrames(data) ==
    /\ data.type = "dict"
    /\ "key_frames" \in DOMAIN data.m

\* re.search of ```json\s*([\s\S]*?)\s*``` (marked) or ```\s*([\s\S]*?)\s*```
\* (unmarked): the leftmost opening fence that has a closing fence after it,
\* and the text up to the first closing fence.  found = FALSE: no match.
FenceSearch(text, marked) ==
    LET open(i)  == /\ text[i] = TFence
                    /\ marked => (i + 1 <= Len(text) /\ text[i + 1] = TJson)
        body(i)  == IF marked THEN i + 1 ELSE i
        starts   == {i \in 1..Len(text) : open(i) /\ FirstAfter(TFence, text, body(i)) # 0}
        i0       == CHOOSE i \in starts : \A j \in starts : i <= j
    IN  IF starts = {} THEN [found |-> FALSE, group |-> <<>>]
        ELSE [found |-> TRUE,
              group |-> SubSeq(text, body(i0) + 1, FirstAfter(TFence, text, body(i0)) - 1)]

\* re.findall of \{[\s\S]*?\}: each match runs from a { to the first } after
\* it, and the scan resumes after that }.
RECURSIVE BraceBlocks(_)
BraceBlocks(text) ==
    LET i == FirstAfter(TLBrace, text, 0)
        k == IF i = 0 THEN 0 ELSE FirstAfter(TRBrace, text, i)
    IN  IF i = 0 \/ k = 0 THEN <<>>
        ELSE <<SubSeq(text, i, k)>> \o BraceBlocks(Drop(text, k + 1))

\* "key_frames" in block
MentionsKeyFrames(block) == \E i \in 1..Len(block) : block[i] = TKfKey

\* The result of one decode attempt on a candidate: the dict, or None.
DecodeAttempt(candidate) ==
    LET r == json_loads(candidate)
    IN  IF r.ok /\ IsDictWithKeyFrames(r.val) THEN r.val ELSE None

\* The fallback loop over the brace blocks: the first block that mentions
\* key_frames and decodes to a dict with that key.
RECURSIVE FirstDecodable(_)
FirstDecodable(blocks) ==
    IF Len(blocks) = 0 THEN None
    ELSE IF MentionsKeyFrames(blocks[1]) /\ DecodeAttempt(blocks[1]) # None
         THEN DecodeAttempt(blocks[1])
    ELSE FirstDecodable(Tail(blocks))

extract_key_frames_json(text) ==
    LET m1 == FenceSearch(text, TRUE)
        m2 == FenceSearch(text, FALSE)
        a1 == IF m1.found THEN DecodeAttempt(m1.group) ELSE None
        a2 == IF m2.found THEN DecodeAttempt(m2.group) ELSE None
    IN  IF a1 # None THEN a1
        ELSE IF a2 # None THEN a2
        ELSE FirstDecodable(BraceBlocks(text))

(***************************************************************************)
(* Batch entry point: find_video_files (glob on a POSIX host, where        *)
(* fnmatch compares file names case-sensitively) and the output paths.     *)
(***************************************************************************)

LowerLetters ==
    <<"a", "b", "c", "d", "e", "f", "g", "h", "i", "j", "k", "l", "m",
      "n", "o", "p", "q", "r", "s", "t", "u", "v", "w", "x", "y", "z">>

UpperLetters ==
    <<"A", "B", "C", "D", "E", "F", "G", "H", "I", "J", "K", "L", "M",
      "N", "O", "P", "Q", "R", "S", "T", "U", "V", "W", "X", "Y", "Z">>

\* The characters of the modelled alphabet in code-point order.
CodeOrder ==
    <<" ", "+", "-", ".">> \o Digits \o <<":", ">">> \o UpperLetters \o <<"_">> \o LowerLetters

Ord(c) == CHOOSE i \in 1..Len(CodeOrder) : CodeOrder[i] = c

\* str.upper() and str.lower(), character by character.
UpperChar(c) ==
    IF \E i \in 1..26 : LowerLetters[i] = c
    THEN UpperLetters[CHOOSE i \in 1..26 : LowerLetters[i] = c] ELSE c

LowerChar(c) ==
    IF \E i \in 1..26 : UpperLetters[i] = c
    THEN LowerLetters[CHOOSE i \in 1..26 : UpperLetters[i] = c] ELSE c

Upper(s) == [i \in 1..Len(s) |-> UpperChar(s[i])]

Lower(s) == [i \in 1..Len(s) |-> LowerChar(s[i])]

\* a < b for Python strings: lexicographic by code point.
RECURSIVE StrLess(_, _)
StrLess(a, b) ==
    IF Len(b) = 0 THEN FALSE
    ELSE IF Len(a) = 0 THEN TRUE
    ELSE IF a[1] # b[1] THEN Ord(a[1]) < Ord(b[1])
    ELSE StrLess(Tail(a), Tail(b))

\* list.sort() of a list of distinct strings.
RECURSIVE SortedSeq(_)
SortedSeq(S) ==
    IF S = {} THEN <<>>
    ELSE LET least == CHOOSE a \in S : \A b \in S \ {a} : StrLess(a, b)
         IN  <<least>> \o SortedSeq(S \ {least})

\* The patterns *.mp4 ... *.m4v, each given by the text after the star.
video_extensions ==
    << <<".", "m", "p", "4">>, <<".", "a", "v", "i">>, <<".", "m", "o", "v">>,
       <<".", "m", "k", "v">>, <<".", "w", "m", "v">>, <<".", "f", "l", "v">>,
       <<".", "w", "e", "b", "m">>, <<".", "m", "4", "v">> >>

\* glob of the pattern *<suffix>: the file name ends with the suffix, compared
\* case-sensitively, and is not hidden.
GlobMatch(suffix, name) ==
    /\ Len(name) >= Len(suffix)
    /\ Drop(name, Len(name) - Len(suffix) + 1) = suffix
    /\ name[1] # "."

find_video_files(dir) ==
    SortedSeq({name \in dir :
                 \E k \in 1..Len(video_extensions) :
                    \/ GlobMatch(video_extensions[k], name)
                    \/ GlobMatch(Upper(video_extensions[k]), name)})

\* os.path.splitext(name)[0]: the name without its last extension (a name
\* whose only dots are leading has none).
SplitExtRoot(name) ==
    LET dots == {i \in 1..Len(name) : name[i] = "." /\ \E j \in 1..(i - 1) : name[j] # "."}
        last == CHOOSE i \in dots : \A j \in dots : j <= i
    IN  IF dots = {} THEN name ELSE SubSeq(name, 1, last - 1)

\* The final document of a video: <video dir>/<base_name>/<base_name>.md.
FinalOutputPath(video_name) ==
    [out_dir |-> SplitExtRoot(video_name),
     file    |-> SplitExtRoot(video_name) \o <<".", "m", "d">>]

(***************************************************************************)
(* Bounds of the model and the inputs drawn from them.                     *)
(***************************************************************************)

\* The largest number of files in the input directory.
MaxVideos == 2

\* The longest video, in nominal chunk durations.
MaxChunks == 3

\* The largest number of key-frame image exports that fail for one video.
MaxImageFailures == 1

\* The largest number of chunks of one video whose duration probe fails.
MaxProbeFailures == 1

\* The largest number of file deletions that fail during one batch.
MaxDeleteFailures == 1

\* CHUNK_DURATION_MINUTES, at its default.
DefaultChunkMinutes == 10

Str_a_mp4 == <<"a", ".", "m", "p", "4">>
Str_a_mov == <<"a", ".", "m", "o", "v">>
Str_b_MP4 == <<"b", ".", "M", "P", "4">>

\* The files an input directory may hold.
AllFiles == {Str_a_mp4, Str_a_mov, Str_b_MP4}

Directories == {d \in SUBSET AllFiles : Cardinality(d) <= MaxVideos}

Tc_00_07    == <<"0", "0", ":", "0", "7">>
Tc_00_00_05 == <<"0", "0", ":", "0", "0", ":", "0", "5">>
Tc_1_05     == <<"1", ":", "0", "5">>

\* One key-frame object {"timecode": tc, "title": ..., "frame_description": ...};
\* the title names the chunk the frame was seen in and the chunk-relative
\* timecode the backend gave it.
KeyFrameObject(chunk, tc) ==
    <<TLBrace,
      TFields([timecode |-> tc, title |-> [chunk |-> chunk, at |-> tc],
               frame_description |-> "d"]),
      TRBrace>>

\* {"key_frames": [ items ]}
Payload(items) == <<TLBrace, TKfKey, TWs, TLBrack>> \o items \o <<TRBrack, TRBrace>>

\* Prose only.
TextProse == <<TProse, TWs, TProse>>

\* Prose, then a ```json block with two key frames (not in time order).
TextFenced(chunk) ==
    <<TProse, TWs, TFence, TJson, TWs>>
    \o Payload(KeyFrameObject(chunk, Tc_00_07) \o <<TComma, TWs>>
               \o KeyFrameObject(chunk, Tc_00_00_05))
    \o <<TWs, TFence>>

\* A ```json block whose key_frames list holds a scalar instead of an object.
TextScalarItem == <<TFence, TJson, TWs>> \o Payload(<<TAtom>>) \o <<TFence>>

\* A synthesized text carrying its own key-frame block, with a m:ss timecode.
TextCombinedFenced ==
    <<TProse, TWs, TFence, TJson, TWs>> \o Payload(KeyFrameObject(-1, Tc_1_05)) \o <<TFence>>

\* The texts the backend may answer for the chunk with original ordinal chunk.
BackendTexts(chunk) == {TextProse, TextFenced(chunk), TextScalarItem}

\* The texts the backend may answer to the synthesis request.
CombinedTexts == {TextProse, TextCombinedFenced, TextScalarItem}

(***************************************************************************)
(* State.                                                                  *)
(***************************************************************************)

VARIABLES
    directory,               \* the file names in the input directory
    require_json_keyframes,  \* the option asked once per batch
    chunk_duration_minutes,  \* CHUNK_DURATION_MINUTES
    video_files,             \* main: the sorted list find_video_files returned
    pc,                      \* where the batch is: "main", a stage of the
                             \* current video, or "done"
    vi,                      \* main: the loop index, 1-based (0 before the loop)
    successful_count,        \* main
    failed_count,            \* main
    attempted,               \* history: the video names passed to process_single_video
    outcome,                 \* how the current video ended: None while it runs,
                             \* then [ok, stage]
    final_writes,            \* history: the writes of final documents, [video, path]
    delete_faults,           \* the environment: how many deletions of files in
                             \* the temporary directory will still fail
    scratch,                 \* the files in the temporary directory, each
                             \* [path, video]: its path and the index of the
                             \* video it was written for
    duration,                \* split_video: the probed duration, seconds
    num_chunks,              \* split_video
    ext_i,                   \* split_video: loop index i
    chunk_paths,             \* split_video result / process_single_video
    extract_log,             \* history: the ffmpeg extractions run for this video
    an_i,                    \* process_single_video: analysis loop index i
    chunk_infos,             \* history: the descriptors handed to the analyzer
    probe_failures,          \* history: the chunk duration probes that failed
    chunk_analyses,          \* process_single_video
    collected_key_frames,    \* process_single_video
    chunk_analysis_paths,    \* process_single_video
    final_analysis,          \* process_single_video
    combine_calls,           \* history: the arguments of combine_analyses calls
    kf_json,                 \* the content of key_frames.json written for this video
    image_exports            \* history: the still-image exports run for this video

mainVars == <<directory, require_json_keyframes, chunk_duration_minutes, video_files>>
countVars == <<successful_count, failed_count>>
splitVars == <<duration, num_chunks, ext_i, chunk_paths, extract_log>>
analysisVars == <<an_i, chunk_infos, probe_failures, chunk_analyses, collected_key_frames, chunk_analysis_paths>>
saveVars == <<kf_json, image_exports>>
pipelineVars ==
    <<mainVars, pc, vi, countVars, attempted, outcome, final_writes, delete_faults, scratch,
      splitVars, analysisVars, final_analysis, combine_calls, saveVars>>

VARIABLES
    backend,                 \* _retry_with_backoff: the adapter whose loop runs
    attempt,                 \* _retry_with_backoff: the loop variable
    rpc,                     \* where the call is: "idle", "call" (at the try of
                             \* iteration attempt), "returned" or "raised"
    invocations,             \* history: the number of func() invocations
    sleeps,                  \* history: base_delay of every time.sleep
    rate_limit_signals,      \* history: the invocations the backend rate-limited
    last_exception,          \* the exception of the latest failed invocation
    outcomes                 \* history: how each invocation ended, as the loop
                             \* took it: "success", "rate-limited", "other error"

retryVars ==
    <<backend, attempt, rpc, invocations, sleeps, rate_limit_signals, last_exception,
      outcomes>>

VARIABLES
    call                     \* one call of a text function outside any batch:
                             \* [fn, arg, parts, returned, ret]

vars == <<pipelineVars, retryVars, call>>

(***************************************************************************)
(* VideoProcessor: split_video and get_chunk_info.                         *)
(***************************************************************************)

chunk_duration_seconds == chunk_duration_minutes * 60

\* The video being processed.
video_path == video_files[vi]

Min(a, b) == IF a <= b THEN a ELSE b

\* Paths.  The original video, a chunk file <stem>_chunk_<n>.mp4 in the
\* temporary directory (n = i + 1), and a chunk's analysis file.
VideoPath(name) == [kind |-> "video", name |-> name]

ChunkPath(name, i) == [kind |-> "chunk", stem |-> SplitExtRoot(name), n |-> i + 1]

AnalysisPath(chunk_path) ==
    [kind |-> "analysis",
     stem |-> IF chunk_path.kind = "video" THEN SplitExtRoot(chunk_path.name)
              ELSE chunk_path.stem,
     n    |-> IF chunk_path.kind = "video" THEN 0 ELSE chunk_path.n]

\* A file written into the temporary directory for the current video; a
\* file already at that path is replaced.
WriteScratch(path) ==
    {f \in scratch : f.path # path} \cup {[path |-> path, video |-> vi]}

\* cleanup_temp_directory: every file is deleted except those whose deletion
\* raises, which are reported and left in place.
cleanup_temp_directory ==
    \E kept \in SUBSET scratch :
        /\ Cardinality(kept) <= delete_faults
        /\ scratch' = kept
        /\ delete_faults' = delete_faults - Cardinality(kept)

\* The ordinal at which a chunk was cut from the original video (the i of the
\* split loop, which the chunk's file name carries as i + 1).
OriginalOrdinal(chunk_path) == IF chunk_path.kind = "video" THEN 0 ELSE chunk_path.n - 1

\* Number of chunks needed for a video longer than one chunk.
NumChunks(d, cds) == (d \div cds) + (IF d % cds > 0 THEN 1 ELSE 0)

\* What ffprobe reports for a chunk file: the part of the video that
\* ffmpeg -ss start -t chunk_duration_seconds copied.
MediaDuration(chunk_path) ==
    IF chunk_path.kind = "video" THEN duration
    ELSE Min(chunk_duration_seconds,
             duration - OriginalOrdinal(chunk_path) * chunk_duration_seconds)

\* A faulty split loop: a failed extraction ends the loop.
BreakAfterFailure(i, n) == n

\* The loop index after a failed extraction: the loop continues.
ContinueAfterFailure(i, n) == i + 1

\* get_chunk_info; probe_ok = FALSE is the fallback to the estimated
\* duration.  Times are kept in seconds (the code's minutes times 60).
get_chunk_info(chunk_path, chunk_index, total_chunks, probe_ok) ==
    LET d == IF probe_ok THEN MediaDuration(chunk_path) ELSE chunk_duration_seconds
    IN  [path               |-> chunk_path,
         index              |-> chunk_index,
         total_chunks       |-> total_chunks,
         duration           |-> d,
         start_time_seconds |-> chunk_index * chunk_duration_seconds,
         end_time_seconds   |-> chunk_index * chunk_duration_seconds + d,
         is_first           |-> chunk_index = 0,
         is_last            |-> chunk_index = total_chunks - 1]

\* The durations the probe may report: every half chunk up to MaxChunks chunks.
Durations == {(k * chunk_duration_seconds) \div 2 : k \in 1..(2 * MaxChunks)}

(***************************************************************************)
(* main and process_single_video.                                          *)
(***************************************************************************)

\* Where main is after process_single_video returned: at the loop header,
\* or past the loop at the summary.
AfterReturn == IF vi < Len(video_files) THEN "main" ELSE "done"

\* A faulty main: a success is counted as a failure too.
CountBoth ==
    /\ successful_count' = successful_count + 1
    /\ failed_count' = failed_count + 1
    /\ pc' = AfterReturn

\* process_single_video returned True: main counts a success and goes on.
ReturnTrue ==
    /\ successful_count' = successful_count + 1
    /\ failed_count' = failed_count
    /\ pc' = AfterReturn

\* A faulty main: the batch stops at the first video that fails.
AbortBatch ==
    /\ failed_count' = failed_count + 1
    /\ successful_count' = successful_count
    /\ pc' = "done"

\* The except block of process_single_video returned False: main counts a
\* failure and goes on with the next video.
ReturnFalse ==
    /\ failed_count' = failed_count + 1
    /\ successful_count' = successful_count
    /\ pc' = AfterReturn

Failed(stage) ==
    /\ ReturnFalse
    /\ outcome' = ([ok |-> FALSE, stage |-> stage])

\* A faulty pipeline: the analysis loop is skipped.
SkipAnalysis(paths) == "combine"

\* The stage after split_video returned: the analysis loop, or (no chunk)
\* straight on to step 3.
StageAfterSplit(paths) == IF Len(paths) = 0 THEN "combine" ELSE "analyze"

\* A faulty analysis loop: it ends after its first iteration.
SkipRemainingChunks(i, paths) == "combine"

\* The stage after iteration i - 1 of the analysis loop: the next chunk, or
\* step 3 once the loop over chunk_paths ends.
StageAfterChunk(i, paths) == IF i < Len(paths) THEN "analyze" ELSE "combine"

\* main's loop header: the next video is handed to process_single_video.
MainNext ==
    /\ pc = "main"
    /\ vi < Len(video_files)
    /\ vi' = vi + 1
    /\ attempted' = Append(attempted, video_files[vi + 1])
    /\ pc' = "split"
    /\ duration' = 0
    /\ num_chunks' = 0
    /\ ext_i' = 0
    /\ chunk_paths' = <<>>
    /\ extract_log' = <<>>
    /\ an_i' = 0
    /\ chunk_infos' = <<>>
    /\ probe_failures' = 0
    /\ chunk_analyses' = <<>>
    /\ collected_key_frames' = <<>>
    /\ chunk_analysis_paths' = <<>>
    /\ final_analysis' = <<>>
    /\ combine_calls' = <<>>
    /\ kf_json' = None
    /\ image_exports' = <<>>
    /\ outcome' = None
    /\ UNCHANGED <<call, retryVars, delete_faults, mainVars, countVars, final_writes, scratch>>

\* No video file was found: main returns at once.
MainNoVideos ==
    /\ pc = "main"
    /\ Len(video_files) = 0
    /\ pc' = "done"
    /\ UNCHANGED <<call, retryVars, delete_faults, mainVars, vi, countVars, attempted, outcome, final_writes, scratch,
                   splitVars, analysisVars, final_analysis, combine_calls, saveVars>>

\* A component constructor raises (no project id, a prompt file missing).
ConstructRaise ==
    /\ pc = "split"
    /\ Failed("init")
    /\ UNCHANGED <<call, retryVars, delete_faults, mainVars, vi, attempted, final_writes, scratch,
                   splitVars, analysisVars, final_analysis, combine_calls, saveVars>>

\* split_video: the scratch directory is cleared, then the probe fails.
SplitDurationUnavailable ==
    /\ pc = "split"
    /\ cleanup_temp_directory
    /\ Failed("segment")
    /\ UNCHANGED <<call, retryVars, mainVars, vi, attempted, final_writes,
                   splitVars, analysisVars, final_analysis, combine_calls, saveVars>>

\* A faulty test: a video of exactly one chunk's length is split.
ShorterThanChunk(d) == d < chunk_duration_seconds

\* if duration <= self.chunk_duration_seconds
FitsOneChunk(d) == d <= chunk_duration_seconds

\* split_video on a video no longer than one chunk: the original is returned.
SplitNotNeeded ==
    /\ pc = "split"
    /\ \E d \in Durations :
          /\ FitsOneChunk(d)
          /\ duration' = d
    /\ cleanup_temp_directory
    /\ chunk_paths' = <<VideoPath(video_path)>>
    /\ pc' = "analyze"
    /\ UNCHANGED <<call, retryVars, mainVars, vi, countVars, attempted, outcome, final_writes,
                   num_chunks, ext_i, extract_log,
                   analysisVars, final_analysis, combine_calls, saveVars>>

\* split_video on a longer video: the number of chunks is computed.
SplitBegin ==
    /\ pc = "split"
    /\ \E d \in Durations :
          /\ ~FitsOneChunk(d)
          /\ duration' = d
          /\ num_chunks' = NumChunks(d, chunk_duration_seconds)
    /\ cleanup_temp_directory
    /\ ext_i' = 0
    /\ chunk_paths' = <<>>
    /\ pc' = "extract"
    /\ UNCHANGED <<call, retryVars, mainVars, vi, countVars, attempted, outcome, final_writes,
                   extract_log, analysisVars, final_analysis, combine_calls, saveVars>>

\* One iteration of the split loop whose ffmpeg run succeeds.
ExtractChunkOk ==
    /\ pc = "extract"
    /\ extract_log' = Append(extract_log,
                             [ordinal |-> ext_i, start |-> ext_i * chunk_duration_seconds,
                              ok |-> TRUE])
    /\ chunk_paths' = Append(chunk_paths, ChunkPath(video_path, ext_i))
    /\ scratch' = WriteScratch(ChunkPath(video_path, ext_i))
    /\ ext_i' = ext_i + 1
    /\ pc' = IF ext_i' < num_chunks THEN "extract" ELSE StageAfterSplit(chunk_paths')
    /\ UNCHANGED <<call, retryVars, delete_faults, mainVars, vi, countVars, attempted, outcome, final_writes,
                   duration, num_chunks, analysisVars, final_analysis, combine_calls,
                   saveVars>>

\* One iteration of the split loop whose ffmpeg run fails (CalledProcessError).
ExtractChunkFail ==
    /\ pc = "extract"
    /\ extract_log' = Append(extract_log,
                             [ordinal |-> ext_i, start |-> ext_i * chunk_duration_seconds,
                              ok |-> FALSE])
    /\ ext_i' = ContinueAfterFailure(ext_i, num_chunks)
    /\ pc' = IF ext_i' < num_chunks THEN "extract" ELSE StageAfterSplit(chunk_paths)
    /\ UNCHANGED <<call, retryVars, delete_faults, mainVars, vi, countVars, attempted, outcome, final_writes, scratch,
                   duration, num_chunks, chunk_paths, analysisVars, final_analysis,
                   combine_calls, saveVars>>

\* Parsed JSON values: isinstance checks and dict.get.
IsList(v) == v.type = "list"

IsDict(v) == v.type = "dict"

DictGet(d, key, default) == IF key \in DOMAIN d.m THEN d.m[key] ELSE default

Tc_00_00_00 == <<"0", "0", ":", "0", "0", ":", "0", "0">>

\* The chunk being analyzed.
chunk_path == chunk_paths[an_i + 1]

\* The key frames of a chunk's text that the loop collects, given what the
\* extractor returned for it: none unless key frames are requested and the
\* result is a dict whose key_frames is a list.
ChunkKeyFrames(kf) ==
    IF require_json_keyframes /\ kf # None /\ IsList(DictGet(kf, "key_frames", None))
    THEN kf.m["key_frames"].items ELSE <<>>

\* A faulty offset: the chunk's timecodes are left chunk-relative.
NoOffset(chunk_info) == 0

\* The offset added to a chunk's timecodes: the descriptor's index times the
\* nominal chunk duration.
StartOffsetSec(chunk_info) == chunk_info.index * chunk_duration_seconds

\* The adjusted list built from a chunk's key frames.
AdjustKeyFrames(items, start_offset_sec) ==
    [k \in 1..Len(items) |->
        [type |-> "dict",
         m |-> [timecode |-> seconds_to_timecode(
                                 timecode_to_seconds(DictGet(items[k], "timecode", Tc_00_00_00))
                                 + start_offset_sec),
                title |-> DictGet(items[k], "title", <<>>),
                frame_description |-> DictGet(items[k], "frame_description", <<>>)]]]

\* The outcomes of the chunk's duration probe in get_chunk_info, and the
\* count of failed probes after it.
ProbeOutcomes == {ok \in BOOLEAN : ok \/ probe_failures < MaxProbeFailures}

ProbeCount(probe_ok) == IF probe_ok THEN probe_failures ELSE probe_failures + 1

AllDicts(items) == \A k \in 1..Len(items) : IsDict(items[k])

\* An iteration that puts the newer chunk's key frames first.
CollectPrepend(chunk_info, text, items) ==
    /\ AllDicts(items)
    /\ chunk_analyses' = Append(chunk_analyses, text)
    /\ collected_key_frames' =
           AdjustKeyFrames(items, StartOffsetSec(chunk_info)) \o collected_key_frames

\* The body of one iteration whose chunk text yields the key frames items.
CollectChunk(chunk_info, text, items) ==
    /\ AllDicts(items)
    /\ chunk_analyses' = Append(chunk_analyses, text)
    /\ collected_key_frames' =
           collected_key_frames \o AdjustKeyFrames(items, StartOffsetSec(chunk_info))

\* One iteration of the analysis loop that completes.
AnalyzeChunkOk ==
    /\ pc = "analyze"
    /\ \E probe_ok \in ProbeOutcomes :
          /\ chunk_infos' = Append(chunk_infos,
                                   get_chunk_info(chunk_path, an_i, Len(chunk_paths), probe_ok))
          /\ probe_failures' = ProbeCount(probe_ok)
    /\ \E text \in BackendTexts(OriginalOrdinal(chunk_path)) :
          CollectChunk(chunk_infos'[an_i + 1], text,
                       ChunkKeyFrames(extract_key_frames_json(text)))
    /\ scratch' = WriteScratch(AnalysisPath(chunk_path))
    /\ chunk_analysis_paths' = Append(chunk_analysis_paths, AnalysisPath(chunk_path))
    /\ an_i' = an_i + 1
    /\ pc' = StageAfterChunk(an_i', chunk_paths)
    /\ UNCHANGED <<call, retryVars, delete_faults, mainVars, vi, countVars, attempted, outcome, final_writes,
                   splitVars, final_analysis, combine_calls, saveVars>>

\* analyze_video_chunk raises: a backend error the retry policy lets through,
\* or the chunk file cannot be read.
AnalyzeBackendRaise ==
    /\ pc = "analyze"
    /\ \E probe_ok \in ProbeOutcomes :
          /\ chunk_infos' = Append(chunk_infos,
                                   get_chunk_info(chunk_path, an_i, Len(chunk_paths), probe_ok))
          /\ probe_failures' = ProbeCount(probe_ok)
    /\ Failed("analyze")
    /\ UNCHANGED <<call, retryVars, delete_faults, mainVars, vi, attempted, final_writes, scratch, splitVars,
                   an_i, chunk_analyses, collected_key_frames, chunk_analysis_paths,
                   final_analysis, combine_calls, saveVars>>

\* An element of the key_frames list is not an object: item.get raises.
AnalyzeItemRaise ==
    /\ pc = "analyze"
    /\ \E probe_ok \in ProbeOutcomes :
          /\ chunk_infos' = Append(chunk_infos,
                                   get_chunk_info(chunk_path, an_i, Len(chunk_paths), probe_ok))
          /\ probe_failures' = ProbeCount(probe_ok)
    /\ \E text \in BackendTexts(OriginalOrdinal(chunk_path)) :
          /\ ~AllDicts(ChunkKeyFrames(extract_key_frames_json(text)))
          /\ chunk_analyses' = Append(chunk_analyses, text)
    /\ Failed("analyze")
    /\ UNCHANGED <<call, retryVars, delete_faults, mainVars, vi, attempted, final_writes, scratch, splitVars,
                   an_i, collected_key_frames, chunk_analysis_paths,
                   final_analysis, combine_calls, saveVars>>

\* A synthesis request for a single text too.
CombinesAlways(n) == n >= 1

\* if len(chunk_analyses) > 1
NeedsCombine(n) == n > 1

\* Step 3 with one chunk text: it is the final analysis.
CombineSingle ==
    /\ pc = "combine"
    /\ ~NeedsCombine(Len(chunk_analyses))
    /\ Len(chunk_analyses) >= 1
    /\ final_analysis' = chunk_analyses[1]
    /\ pc' = "save"
    /\ UNCHANGED <<call, retryVars, delete_faults, mainVars, vi, countVars, attempted, outcome, final_writes, scratch,
                   splitVars, analysisVars, combine_calls, saveVars>>

\* A faulty step 3: with no chunk text the final analysis is the empty text
\* and the run goes on to step 4.
CombineNothing ==
    /\ pc = "combine"
    /\ Len(chunk_analyses) = 0
    /\ final_analysis' = <<>>
    /\ pc' = "save"
    /\ UNCHANGED <<call, retryVars, delete_faults, mainVars, vi, countVars, attempted, outcome,
                   final_writes, scratch, splitVars, analysisVars, combine_calls, saveVars>>

\* Step 3 with no chunk text: chunk_analyses[0] raises IndexError.
CombineNoChunk ==
    /\ pc = "combine"
    /\ ~NeedsCombine(Len(chunk_analyses))
    /\ Len(chunk_analyses) = 0
    /\ Failed("combine")
    /\ UNCHANGED <<call, retryVars, delete_faults, mainVars, vi, attempted, final_writes, scratch,
                   splitVars, analysisVars, final_analysis, combine_calls, saveVars>>

\* Step 3 with several chunk texts: combine_analyses returns a text.
CombineMany ==
    /\ pc = "combine"
    /\ NeedsCombine(Len(chunk_analyses))
    /\ combine_calls' = Append(combine_calls, chunk_analyses)
    /\ \E text \in CombinedTexts : final_analysis' = text
    /\ pc' = "save"
    /\ UNCHANGED <<call, retryVars, delete_faults, mainVars, vi, countVars, attempted, outcome, final_writes, scratch,
                   splitVars, analysisVars, saveVars>>

\* combine_analyses raises.
CombineRaise ==
    /\ pc = "combine"
    /\ NeedsCombine(Len(chunk_analyses))
    /\ combine_calls' = Append(combine_calls, chunk_analyses)
    /\ Failed("combine")
    /\ UNCHANGED <<call, retryVars, delete_faults, mainVars, vi, attempted, final_writes, scratch,
                   splitVars, analysisVars, final_analysis, saveVars>>

\* {"key_frames": frames}
KeyFramesDict(frames) ==
    [type |-> "dict", m |-> [key_frames |-> [type |-> "list", items |-> frames]]]

\* Step 4: the payload handed to save_final_analysis.
kf_payload ==
    IF require_json_keyframes /\ Len(collected_key_frames) > 0
    THEN KeyFramesDict(collected_key_frames) ELSE None

\* save_final_analysis: the key-frame data it works with, the payload or,
\* without one, what the extractor finds in the final text.
key_frames_data ==
    IF kf_payload = None THEN extract_key_frames_json(final_analysis) ELSE kf_payload

\* What save_final_analysis writes to key_frames.json for the data it works
\* with (None: no file).
KeyFramesJson(data) ==
    IF require_json_keyframes /\ data # None /\ IsList(DictGet(data, "key_frames", None))
    THEN data ELSE None

\* The frames of the written key_frames.json, which the export loop walks.
FramesToExport(json) == IF json = None THEN <<>> ELSE json.m["key_frames"].items

\* The timecodes handed to ffmpeg for the first n frames, sanitized.
ExportTimecodes(frames, n) ==
    [k \in 1..n |->
        _sanitize_timecode_for_ffmpeg(DictGet(frames[k], "timecode", Tc_00_00_00))]

\* The write of the final document by save_analysis_to_file.
WriteFinalDocument ==
    final_writes' = Append(final_writes,
                           [video |-> vi, path |-> FinalOutputPath(video_path)])

\* The output directory or the final document cannot be written.
SaveFinalRaise ==
    /\ pc = "save"
    /\ Failed("persist")
    /\ UNCHANGED <<call, retryVars, delete_faults, mainVars, vi, attempted, final_writes, scratch,
                   splitVars, analysisVars, final_analysis, combine_calls, saveVars>>

\* A faulty export loop: it stops at the first export that fails.
ExportUntilFailure(frames, n) ==
    \E tc \in {ExportTimecodes(frames, n)} :
        \E failing \in SUBSET (1..n) :
            /\ Cardinality(failing) <= MaxImageFailures
            /\ LET last == IF failing = {} THEN n
                           ELSE CHOOSE k \in failing : \A j \in failing : k <= j
               IN  image_exports' =
                       [k \in 1..last |->
                           [idx |-> k, timecode |-> tc[k], ok |-> k \notin failing]]

\* The export loop over the first n frames, of which some exports fail.
ExportImages(frames, n) ==
    \E tc \in {ExportTimecodes(frames, n)} :
        \E failing \in SUBSET (1..n) :
            /\ Cardinality(failing) <= MaxImageFailures
            /\ image_exports' =
                   [k \in 1..n |-> [idx |-> k, timecode |-> tc[k], ok |-> k \notin failing]]

\* Step 4 completes: the final document, and when key frames are requested
\* and found, key_frames.json and one image export per frame, each of which
\* may fail.
SaveFinalOk ==
    /\ pc = "save"
    /\ WriteFinalDocument
    /\ kf_json' = KeyFramesJson(key_frames_data)
    /\ AllDicts(FramesToExport(kf_json'))
    /\ ExportImages(FramesToExport(kf_json'), Len(FramesToExport(kf_json')))
    /\ ReturnTrue
    /\ outcome' = ([ok |-> TRUE, stage |-> "done"])
    /\ UNCHANGED <<call, retryVars, delete_faults, mainVars, vi, attempted, scratch,
                   splitVars, analysisVars, final_analysis, combine_calls>>

\* The first frame that is not an object (0 when every frame is one).
FirstBadFrame(frames) ==
    IF AllDicts(frames) THEN 0
    ELSE CHOOSE bad \in 1..Len(frames) :
             ~IsDict(frames[bad]) /\ \A k \in 1..(bad - 1) : IsDict(frames[k])

\* Step 4 with a frame that is not an object: frame.get raises after the
\* final document and key_frames.json were written.
SaveFinalFrameRaise ==
    /\ pc = "save"
    /\ WriteFinalDocument
    /\ kf_json' = KeyFramesJson(key_frames_data)
    /\ ~AllDicts(FramesToExport(kf_json'))
    /\ ExportImages(FramesToExport(kf_json'), FirstBadFrame(FramesToExport(kf_json')) - 1)
    /\ Failed("export")
    /\ UNCHANGED <<call, retryVars, delete_faults, mainVars, vi, attempted, scratch,
                   splitVars, analysisVars, final_analysis, combine_calls>>

(***************************************************************************)
(* The retry policy: _retry_with_backoff of GeminiAnalyzer and of          *)
(* OpenRouterAnalyzer, around one backend call.  An exception is its class *)
(* and its message text.  time.sleep is recorded by its base_delay; the    *)
(* jitter factor scales the pause and decides nothing.                     *)
(***************************************************************************)

max_retries == 5

Msg_429 == <<"4", "2", "9">>

Msg_quota == <<"q", "u", "o", "t", "a">>

Msg_bitrate == <<"b", "i", "t", "r", "a", "t", "e">>

Msg_timeout == <<"t", "i", "m", "e", "o", "u", "t">>

Messages == {Msg_429, Msg_quota, Msg_bitrate, Msg_timeout}

\* The exception classes that carry the backend's rate-limit signal: HTTP 429
\* and RESOURCE_EXHAUSTED of google.api_core, HTTP 429 of the openai client.
RateLimitClasses == {"TooManyRequests", "ResourceExhausted", "RateLimitError"}

IsRateLimitSignal(e) == e.cls \in RateLimitClasses

\* What the Vertex AI call can raise.
GeminiExceptions ==
    [cls : {"TooManyRequests", "ResourceExhausted", "ServiceUnavailable"}, msg : Messages]

\* What the OpenRouter call can raise: the client's RateLimitError, whose
\* message names the status code, or another error with any message.
OpenRouterExceptions ==
    {[cls |-> "RateLimitError", msg |-> Msg_429]}
        \cup [cls : {"APIError"}, msg : {Msg_quota, Msg_bitrate, Msg_timeout}]

\* range(max_retries + 1)
AttemptRange == 0..max_retries

\* A faulty loop: the last attempt comes one iteration early.
LastAttemptOneEarly(a) == a + 1 = max_retries

\* attempt == max_retries
IsLastAttempt(a) == a = max_retries

\* base_delay = 2 ** attempt
BaseDelay(a) == 2 ^ a

\* except (TooManyRequests, ResourceExhausted)
GeminiCatchesAsRateLimit(e) == e.cls \in {"TooManyRequests", "ResourceExhausted"}

\* is_rate_limit = "rate" in error_str or "429" in error_str, on the
\* lowercased message.
is_rate_limit(e) ==
    \/ Contains(<<"r", "a", "t", "e">>, Lower(e.msg))
    \/ Contains(<<"4", "2", "9">>, Lower(e.msg))

\* The try of one iteration: func is invoked.
Invoke(b) ==
    /\ rpc = "call"
    /\ backend = b
    /\ attempt \in AttemptRange
    /\ invocations' = invocations + 1

\* func raised e.
Caught(e) ==
    /\ last_exception' = e
    /\ rate_limit_signals' = rate_limit_signals + (IF IsRateLimitSignal(e) THEN 1 ELSE 0)

\* The clause, or the branch, that took the exception.
TakenAs(kind) == outcomes' = Append(outcomes, kind)

\* raise e
Raise ==
    /\ rpc' = "raised"
    /\ UNCHANGED <<backend, attempt, sleeps>>

\* time.sleep(delay), then the next iteration.
SleepAndRetry ==
    /\ sleeps' = Append(sleeps, BaseDelay(attempt))
    /\ attempt' = attempt + 1
    /\ rpc' = "call"
    /\ UNCHANGED backend

\* func returned: return func(*args, **kwargs)
Returned ==
    /\ rpc' = "returned"
    /\ TakenAs("success")
    /\ UNCHANGED <<backend, attempt, sleeps, rate_limit_signals, last_exception>>

\* GeminiAnalyzer: the call returns.
GeminiReturn ==
    /\ Invoke("gemini")
    /\ Returned
    /\ UNCHANGED <<call, pipelineVars>>

\* GeminiAnalyzer: the first except clause.
GeminiRateLimited ==
    /\ Invoke("gemini")
    /\ \E e \in GeminiExceptions :
          /\ GeminiCatchesAsRateLimit(e)
          /\ Caught(e)
    /\ TakenAs("rate-limited")
    /\ IF IsLastAttempt(attempt) THEN Raise ELSE SleepAndRetry
    /\ UNCHANGED <<call, pipelineVars>>

\* GeminiAnalyzer: the second except clause.
GeminiOtherException ==
    /\ Invoke("gemini")
    /\ \E e \in GeminiExceptions :
          /\ ~GeminiCatchesAsRateLimit(e)
          /\ Caught(e)
    /\ TakenAs("other error")
    /\ Raise
    /\ UNCHANGED <<call, pipelineVars>>

\* OpenRouterAnalyzer: the call returns.
OpenRouterReturn ==
    /\ Invoke("openrouter")
    /\ Returned
    /\ UNCHANGED <<call, pipelineVars>>

\* A faulty loop: every exception before the last attempt is retried.
OpenRouterRetriesAll ==
    /\ Invoke("openrouter")
    /\ \E e \in OpenRouterExceptions :
          /\ Caught(e)
          /\ TakenAs(IF is_rate_limit(e) THEN "rate-limited" ELSE "other error")
          /\ IF IsLastAttempt(attempt) THEN Raise ELSE SleepAndRetry
    /\ UNCHANGED <<call, pipelineVars>>

\* OpenRouterAnalyzer: the except clause.
OpenRouterException ==
    /\ Invoke("openrouter")
    /\ \E e \in OpenRouterExceptions :
          /\ Caught(e)
          /\ TakenAs(IF is_rate_limit(e) THEN "rate-limited" ELSE "other error")
          /\ IF IsLastAttempt(attempt) THEN Raise
             ELSE IF is_rate_limit(e) THEN SleepAndRetry
             ELSE Raise
    /\ UNCHANGED <<call, pipelineVars>>

\* No backend call is under way.
RetryIdle ==
    /\ backend = "gemini"
    /\ attempt = 0
    /\ rpc = "idle"
    /\ invocations = 0
    /\ sleeps = <<>>
    /\ rate_limit_signals = 0
    /\ last_exception = None
    /\ outcomes = <<>>

\* _retry_with_backoff is entered.
RetryStart ==
    /\ backend \in {"gemini", "openrouter"}
    /\ attempt = 0
    /\ rpc = "call"
    /\ invocations = 0
    /\ sleeps = <<>>
    /\ rate_limit_signals = 0
    /\ last_exception = None
    /\ outcomes = <<>>

(***************************************************************************)
(* The batch run.                                                          *)
(***************************************************************************)

\* The state of a batch before main's loop, for the directory's content.
\* No text function is being called.
NoCall == [fn |-> "none", arg |-> <<>>, parts |-> <<>>, returned |-> FALSE, ret |-> None]

BatchStart ==
    /\ chunk_duration_minutes = DefaultChunkMinutes
    /\ video_files = find_video_files(directory)
    /\ pc = "main"
    /\ vi = 0
    /\ successful_count = 0
    /\ failed_count = 0
    /\ attempted = <<>>
    /\ outcome = None
    /\ final_writes = <<>>
    /\ scratch = {}
    /\ duration = 0
    /\ num_chunks = 0
    /\ ext_i = 0
    /\ chunk_paths = <<>>
    /\ extract_log = <<>>
    /\ an_i = 0
    /\ chunk_infos = <<>>
    /\ probe_failures = 0
    /\ chunk_analyses = <<>>
    /\ collected_key_frames = <<>>
    /\ chunk_analysis_paths = <<>>
    /\ final_analysis = <<>>
    /\ combine_calls = <<>>
    /\ kf_json = None
    /\ image_exports = <<>>

Init ==
    /\ directory \in Directories
    /\ require_json_keyframes \in BOOLEAN
    /\ BatchStart
    /\ delete_faults = 0
    /\ RetryIdle
    /\ call = NoCall

Next ==
    \/ MainNext
    \/ MainNoVideos
    \/ ConstructRaise
    \/ SplitDurationUnavailable
    \/ SplitNotNeeded
    \/ SplitBegin
    \/ ExtractChunkOk
    \/ ExtractChunkFail
    \/ AnalyzeChunkOk
    \/ AnalyzeBackendRaise
    \/ AnalyzeItemRaise
    \/ CombineSingle
    \/ CombineNoChunk
    \/ CombineMany
    \/ CombineRaise
    \/ SaveFinalRaise
    \/ SaveFinalOk
    \/ SaveFinalFrameRaise

Spec == Init /\ [][Next]_vars

\* One backend call under the retry policy, outside any batch.
InitRetry ==
    /\ directory = {}
    /\ require_json_keyframes = FALSE
    /\ BatchStart
    /\ delete_faults = 0
    /\ RetryStart
    /\ call = NoCall

NextRetry ==
    \/ GeminiReturn
    \/ GeminiRateLimited
    \/ GeminiOtherException
    \/ OpenRouterReturn
    \/ OpenRouterException

SpecRetry == InitRetry /\ [][NextRetry]_vars

\* A batch during which deletions in the temporary directory may fail (a
\* file still held open, a permission withdrawn).
InitDeleteFaults ==
    /\ directory \in Directories
    /\ require_json_keyframes \in BOOLEAN
    /\ BatchStart
    /\ delete_faults = MaxDeleteFailures
    /\ RetryIdle
    /\ call = NoCall

SpecDeleteFaults == InitDeleteFaults /\ [][Next]_vars

(***************************************************************************)
(* The text functions called on their own: one call per behaviour, the     *)
(* argument drawn at the start, the function applied by the one step.      *)
(***************************************************************************)

\* A call that has not returned yet.
Pending(fn, arg, parts) ==
    [fn |-> fn, arg |-> arg, parts |-> parts, returned |-> FALSE, ret |-> None]

\* The texts the extractor is called on: a prefix, a fenced block and a
\* suffix.  Prefix: nothing, prose, an unmarked code block holding prose, a
\* marked block holding another JSON object, prose with braces.  Suffix:
\* nothing, prose, a later code block, a JSON object.  The block is
\* ```json <payload> ``` (marked) or ``` <payload> ``` (unmarked) and holds
\* {"key_frames": [...]} with no, a scalar, one or two entries,
\* {"key_frames": <scalar>}, {"key_frames": {}} or {"other": <scalar>}.
\* And the texts without a code block: one of those objects embedded between
\* a prefix and a suffix that hold no fence.
ExtractCalls ==
    LET Prefixes ==
            { <<>>,
              <<TProse, TWs>>,
              <<TProse, TWs, TFence, TWs, TProse, TWs, TFence, TWs>>,
              <<TFence, TJson, TWs, TLBrace, TKey, TAtom, TRBrace, TWs, TFence, TWs>>,
              <<TProse, TLBrace, TProse, TRBrace, TWs>> }
        Suffixes ==
            { <<>>,
              <<TWs, TProse>>,
              <<TWs, TFence, TWs, TProse, TWs, TFence>>,
              <<TWs, TLBrace, TKey, TAtom, TRBrace>> }
        BlockPayloads ==
            { Payload(<<>>),
              Payload(<<TAtom>>),
              Payload(KeyFrameObject(0, Tc_00_07)),
              Payload(KeyFrameObject(0, Tc_00_07) \o <<TComma, TWs>>
                      \o KeyFrameObject(0, Tc_1_05)),
              <<TLBrace, TKfKey, TWs, TAtom, TRBrace>>,
              <<TLBrace, TKfKey, TWs, TLBrace, TRBrace, TRBrace>>,
              <<TLBrace, TKey, TWs, TAtom, TRBrace>> }
        FencedBlock(marked, payload) ==
            <<TFence>> \o (IF marked THEN <<TJson>> ELSE <<>>) \o <<TWs>>
            \o payload \o <<TWs, TFence>>
    IN  { Pending("extract_key_frames_json",
                  prefix \o FencedBlock(marked, payload) \o suffix,
                  [prefix |-> prefix, marked |-> marked, payload |-> payload,
                   suffix |-> suffix]) :
            prefix \in Prefixes, marked \in BOOLEAN, payload \in BlockPayloads,
            suffix \in Suffixes }
        \cup { Pending("extract_key_frames_json",
                       prefix \o embedded \o suffix,
                       [prefix |-> prefix, marked |-> FALSE, payload |-> <<>>,
                        suffix |-> suffix, embedded |-> embedded]) :
                 prefix \in {q \in Prefixes : ~Contains(<<TFence>>, q)},
                 embedded \in BlockPayloads,
                 suffix \in {q \in Suffixes : ~Contains(<<TFence>>, q)} }

\* The timecodes the parser is called on: a time alone, a range, and a range
\* with a second separator after it, with and without blanks around the
\* first separator.
TimecodeCalls ==
    LET Times == {Tc_00_07, Tc_1_05, Tc_00_00_05}
        Seps  == {RangeSeparators[k] : k \in 1..6}
        Pads  == {<<>>, <<" ">>}
        Comps == {<<"1">>, <<"0", "5">>, <<"7", ".", "9">>, <<"x">>}
    IN  { Pending("timecode_to_seconds", t, [separators |-> 0]) : t \in Times }
        \cup { Pending("timecode_to_seconds", t \o p \o s1 \o p \o Tc_1_05,
                       [separators |-> 1]) :
                 t \in Times, p \in Pads, s1 \in Seps }
        \cup { Pending("timecode_to_seconds",
                       t \o s1 \o Tc_1_05 \o s2 \o Tc_00_00_05, [separators |-> 2]) :
                 t \in Times, s1 \in Seps, s2 \in Seps }
        \cup { Pending("timecode_to_seconds", a, [separators |-> 0, components |-> 1]) :
                 a \in Comps }
        \cup { Pending("timecode_to_seconds", a \o <<":">> \o b,
                       [separators |-> 0, components |-> 2]) :
                 a \in Comps, b \in Comps }
        \cup { Pending("timecode_to_seconds", a \o <<":">> \o b \o <<":">> \o c,
                       [separators |-> 0, components |-> 3]) :
                 a \in Comps, b \in Comps, c \in Comps }
        \cup { Pending("timecode_to_seconds",
                       a \o <<":">> \o b \o <<":">> \o c \o <<":">> \o d,
                       [separators |-> 0, components |-> 4]) :
                 a \in Comps, b \in Comps, c \in Comps, d \in Comps }

\* The directories discovery is called on: any files among a.mp4, b.MP4,
\* c.Mp4, d.txt, e.WebM and f.mkv.
DirectoryCalls ==
    LET Names == { <<"a", ".", "m", "p", "4">>, <<"b", ".", "M", "P", "4">>,
                   <<"c", ".", "M", "p", "4">>, <<"d", ".", "t", "x", "t">>,
                   <<"e", ".", "W", "e", "b", "M">>, <<"f", ".", "m", "k", "v">> }
    IN  { Pending("find_video_files", dir, [files |-> Cardinality(dir)]) :
            dir \in SUBSET Names }

\* The seconds the formatter is called on: every value up to two minutes, the
\* values around one hour, one day, one hundred hours and a thousand hours.
SecondsCalls ==
    LET Seconds == (0..120) \cup {3599, 3600, 3661, 35999, 36000, 86399, 86400,
                                  359999, 360000, 363661, 3599999, 3600000}
    IN  { Pending("seconds_to_timecode", sec, [hours |-> sec \div 3600]) : sec \in Seconds }

InitCall ==
    /\ directory = {}
    /\ require_json_keyframes = FALSE
    /\ BatchStart
    /\ delete_faults = 0
    /\ RetryIdle
    /\ call \in ExtractCalls \cup TimecodeCalls \cup DirectoryCalls \cup SecondsCalls

CallExtractKeyFramesJson ==
    /\ call.fn = "extract_key_frames_json"
    /\ ~call.returned
    /\ call' = [call EXCEPT !.returned = TRUE, !.ret = extract_key_frames_json(call.arg)]
    /\ UNCHANGED <<pipelineVars, retryVars>>

CallTimecodeToSeconds ==
    /\ call.fn = "timecode_to_seconds"
    /\ ~call.returned
    /\ call' = [call EXCEPT !.returned = TRUE, !.ret = timecode_to_seconds(call.arg)]
    /\ UNCHANGED <<pipelineVars, retryVars>>

CallFindVideoFiles ==
    /\ call.fn = "find_video_files"
    /\ ~call.returned
    /\ call' = [call EXCEPT !.returned = TRUE, !.ret = find_video_files(call.arg)]
    /\ UNCHANGED <<pipelineVars, retryVars>>

CallSecondsToTimecode ==
    /\ call.fn = "seconds_to_timecode"
    /\ ~call.returned
    /\ call' = [call EXCEPT !.returned = TRUE, !.ret = seconds_to_timecode(call.arg)]
    /\ UNCHANGED <<pipelineVars, retryVars>>

NextCall ==
    \/ CallExtractKeyFramesJson
    \/ CallTimecodeToSeconds
    \/ CallFindVideoFiles
    \/ CallSecondsToTimecode

SpecCall == InitCall /\ [][NextCall]_vars

(***************************************************************************)
(* Properties of the batch run (Spec).                                     *)
(***************************************************************************)

\* The final document of video number v has been written.
WrittenFor(v) == \E k \in 1..Len(final_writes) : final_writes[k].video = v

\* C1: main attempts every discovered video exactly once, in lexical order,
\* whatever fails: the videos attempted so far are the first vi names of the
\* sorted list, a failed video hands control back to the loop (or ends it
\* after the last video), and when main is done every video was attempted.
C1_EveryVideoAttemptedOnce ==
    /\ attempted = SubSeq(video_files, 1, vi)
    /\ \A i, j \in 1..Len(video_files) : i < j => StrLess(video_files[i], video_files[j])
    /\ (outcome # None /\ ~outcome.ok) =>
           pc = (IF vi < Len(video_files) THEN "main" ELSE "done")
    /\ pc = "done" => attempted = video_files

\* C1 reached: the first of two videos failed, the second was processed.
C1_Witness ==
    /\ pc = "done"
    /\ Len(video_files) = 2
    /\ failed_count = 1
    /\ successful_count = 1
    /\ outcome # None
    /\ outcome.ok

\* C2: the final document of a video is written only after every chunk of
\* the video was analyzed and the combine stage returned: a video that failed
\* in construction, segmentation, a chunk analysis or the combine call has no
\* final document written, and a written one follows the analysis of every
\* chunk path and, for several chunks, one combine call over all their texts.
C2_FinalWrittenAfterCombine ==
    /\ (outcome # None /\ outcome.stage \in {"init", "segment", "analyze", "combine"})
           => ~WrittenFor(vi)
    /\ WrittenFor(vi) =>
           /\ Len(chunk_paths) > 0
           /\ Len(chunk_analyses) = Len(chunk_paths)
           /\ IF Len(chunk_analyses) = 1
              THEN final_analysis = chunk_analyses[1] /\ combine_calls = <<>>
              ELSE combine_calls = <<chunk_analyses>> /\ final_analysis \in CombinedTexts

\* C2 reached: a video of several chunks has its final document written.
C2_Witness ==
    /\ WrittenFor(vi)
    /\ Len(chunk_analyses) > 1
    /\ outcome # None
    /\ outcome.ok

\* A merged key frame carries the absolute timecode of its origin: the
\* chunk-relative seconds the backend gave plus the start offset of the chunk
\* it was seen in (original ordinal times nominal chunk seconds).
RebasedFromOrigin(f) ==
    f.m["timecode"] =
        seconds_to_timecode(timecode_to_seconds(f.m["title"].at)
                            + f.m["title"].chunk * chunk_duration_seconds)

\* C3: for any pattern of extraction failures, every key frame of the merged
\* payload carries chunk-relative seconds plus original ordinal times nominal
\* chunk seconds.
C3_MergedTimecodesAbsolute ==
    \A k \in 1..Len(collected_key_frames) : RebasedFromOrigin(collected_key_frames[k])

\* The descriptors' ranges tile [0, d): the first starts at 0, each ends
\* where the next starts, the last ends at d.
Tiles(infos, d) ==
    /\ Len(infos) > 0
    /\ infos[1].start_time_seconds = 0
    /\ \A k \in 1..(Len(infos) - 1) :
           infos[k].end_time_seconds = infos[k + 1].start_time_seconds
    /\ \A k \in 1..Len(infos) :
           /\ infos[k].duration > 0
           /\ infos[k].end_time_seconds = infos[k].start_time_seconds + infos[k].duration
    /\ infos[Len(infos)].end_time_seconds = d

\* C4: for a video longer than one chunk, the descriptors produced for it
\* (all of them, once the analysis loop has run through its chunks) tile
\* [0, duration).
C4_DescriptorsTile ==
    (duration > chunk_duration_seconds /\ pc \in {"combine", "save"} /\ Len(chunk_infos) > 0)
        => Tiles(chunk_infos, duration)

\* ceil(a / b)
CeilDiv(a, b) == (a + b - 1) \div b

\* C5: for a video longer than one chunk, every descriptor handed to the
\* analyzer carries total_chunks = ceil(duration / nominal chunk seconds).
C5_TotalChunksIsCeil ==
    duration > chunk_duration_seconds =>
        \A k \in 1..Len(chunk_infos) :
            chunk_infos[k].total_chunks = CeilDiv(duration, chunk_duration_seconds)

ExtractionOk(e) == e.ok

\* The chunk files of the extractions that succeeded, in the order run.
SurvivingChunks ==
    LET ok == SelectSeq(extract_log, ExtractionOk)
    IN  [k \in 1..Len(ok) |-> ChunkPath(video_path, ok[k].ordinal)]

\* C8: a failed extraction drops only its own chunk.  While the split loop
\* runs, one extraction was attempted per ordinal passed; after it, every
\* ordinal 0..num_chunks-1 was attempted in order, the returned sequence is
\* the chunks extracted, in increasing ordinal order, and the analysis loop
\* goes through exactly those chunks.
C8_FailedChunkAloneDropped ==
    /\ pc = "extract" => Len(extract_log) = ext_i
    /\ (duration > chunk_duration_seconds /\ pc \notin {"split", "extract"}) =>
           /\ Len(extract_log) = num_chunks
           /\ \A k \in 1..Len(extract_log) : extract_log[k].ordinal = k - 1
           /\ chunk_paths = SurvivingChunks
           /\ pc = "analyze" => an_i < Len(chunk_paths)
           /\ pc \in {"combine", "save"} =>
                  /\ Len(chunk_analyses) = Len(chunk_paths)
                  /\ \A k \in 1..Len(chunk_paths) : chunk_infos[k].path = chunk_paths[k]

\* C8 reached: the first of three extractions failed, the two later chunks
\* were extracted and both analyzed.
C8_Witness ==
    /\ pc = "combine"
    /\ Len(extract_log) = 3
    /\ ~extract_log[1].ok
    /\ extract_log[2].ok
    /\ extract_log[3].ok
    /\ Len(chunk_analyses) = 2

\* C9: two videos of a batch are persisted to distinct final document paths,
\* so no final document is written twice.
C9_DistinctFinalDocuments ==
    \A i, j \in 1..Len(final_writes) :
        i # j => final_writes[i].path # final_writes[j].path

\* hh:mm:ss, zero-padded.
IsAbsoluteTimecode(tc) ==
    /\ Len(tc) = 8
    /\ tc[3] = ":"
    /\ tc[6] = ":"
    /\ \A i \in {1, 2, 4, 5, 7, 8} : IsDigit(tc[i])

\* C10: when key frames are requested, every entry written to key_frames.json
\* is an entry of the merged, rebased list, with a zero-padded hh:mm:ss
\* timecode.
C10_WrittenKeyFramesRebased ==
    (require_json_keyframes /\ kf_json # None) =>
        \A k \in 1..Len(kf_json.m["key_frames"].items) :
            LET entry == kf_json.m["key_frames"].items[k]
            IN  /\ \E j \in 1..Len(collected_key_frames) : collected_key_frames[j] = entry
                /\ IsAbsoluteTimecode(entry.m["timecode"])

(***************************************************************************)
(* Properties of the retry policy (SpecRetry).                             *)
(***************************************************************************)

\* C6: at most 6 attempts per call.  A call that returns after the backend
\* rate-limited each of its k earlier attempts has slept exactly k times; a
\* call that saw only rate-limit signals raises only once all 6 attempts are
\* used, after exactly 5 sleeps, with the rate-limit error of the last attempt.
C6_RetryPolicy ==
    /\ invocations <= max_retries + 1
    /\ Len(sleeps) <= max_retries
    /\ (rpc = "returned" /\ rate_limit_signals = invocations - 1)
           => Len(sleeps) = invocations - 1
    /\ (rpc = "raised" /\ rate_limit_signals = invocations) =>
           /\ invocations = max_retries + 1
           /\ Len(sleeps) = max_retries
           /\ IsRateLimitSignal(last_exception)

\* C6 reached: five rate-limited attempts, then the sixth returns.
C6_Witness ==
    /\ rpc = "returned"
    /\ rate_limit_signals = max_retries
    /\ invocations = max_retries + 1
    /\ Len(sleeps) = max_retries

\* C7: in both adapters an exception that is not a rate-limit signal
\* propagates on the attempt where it occurs, whatever its message: no sleep
\* and no further invocation follow it.
C7_OtherExceptionNotRetried ==
    (last_exception # None /\ ~IsRateLimitSignal(last_exception)) =>
        /\ rpc = "raised"
        /\ Len(sleeps) < invocations

(***************************************************************************)
(* The key-frame extractor on its own.                                     *)
(***************************************************************************)

\* The payload is a JSON object whose key_frames member is a list.
HoldsKeyFramesList(payload) ==
    /\ json_loads(payload).ok
    /\ IsDictWithKeyFrames(json_loads(payload).val)
    /\ json_loads(payload).val.m["key_frames"].type = "list"

\* C11: for every text made of a prefix, a fenced block (marked json or
\* unmarked) holding {"key_frames": [...]} and a suffix, whatever the prefix
\* and the suffix are, extract_key_frames_json returns the parsed object of
\* that block.
C11_FencedBlockExtracted ==
    (/\ call.fn = "extract_key_frames_json"
     /\ call.returned
     /\ HoldsKeyFramesList(call.parts.payload))
    => call.ret = json_loads(call.parts.payload).val

\* C12: extract_key_frames_json returns either nothing or a mapping whose
\* key_frames member is a list; an object whose key_frames member is not a
\* list is never returned.
C12_ReturnsNoneOrKeyFramesList ==
    (call.fn = "extract_key_frames_json" /\ call.returned)
    => \/ call.ret = None
       \/ /\ call.ret.type = "dict"
          /\ "key_frames" \in DOMAIN call.ret.m
          /\ call.ret.m["key_frames"].type = "list"

(***************************************************************************)
(* The timecode parser on its own.                                         *)
(***************************************************************************)

\* Where the first range separator of the timecode starts, whichever kind it
\* is (0 when the timecode has none).
FirstSeparatorAt(timecode) ==
    LET at == {Find(RangeSeparators[k], timecode) : k \in 1..Len(RangeSeparators)} \ {0}
    IN  IF at = {} THEN 0 ELSE CHOOSE i \in at : \A j \in at : i <= j

\* C13: for every timecode with one or more range separators,
\* timecode_to_seconds parses only the portion before the first separator
\* occurring in the string, whichever kind it is and whichever others follow.
C13_ParsesBeforeFirstSeparator ==
    (/\ call.fn = "timecode_to_seconds"
     /\ call.returned
     /\ FirstSeparatorAt(call.arg) # 0)
    => call.ret = timecode_to_seconds(SubSeq(call.arg, 1, FirstSeparatorAt(call.arg) - 1))

\* The video has passed the combine stage.
PastCombine ==
    \/ pc = "save"
    \/ outcome # None /\ outcome.stage \in {"persist", "export", "done"}

\* C14: a video with exactly one chunk text gets that text unchanged as its
\* final text and combine_analyses is not invoked for it; a video with more
\* than one chunk text gets combine_analyses invoked exactly once, with all
\* its chunk texts in chunk order.
C14_CombineOnlyForSeveralTexts ==
    /\ Len(combine_calls) <= 1
    /\ Len(chunk_analyses) <= 1 => combine_calls = <<>>
    /\ combine_calls # <<>> => combine_calls[1] = chunk_analyses
    /\ PastCombine =>
           IF Len(chunk_analyses) = 1
           THEN final_analysis = chunk_analyses[1] /\ combine_calls = <<>>
           ELSE Len(combine_calls) = 1 /\ combine_calls[1] = chunk_analyses

\* C14 reached: three chunk texts, neighbours differing, went into one
\* synthesis request in chunk order.
C14_Witness ==
    /\ pc = "save"
    /\ Len(chunk_analyses) = 3
    /\ chunk_analyses[1] # chunk_analyses[2]
    /\ chunk_analyses[2] # chunk_analyses[3]
    /\ combine_calls = <<chunk_analyses>>

\* The key-frame entries the chunk texts 1..n carry, in chunk order and, per
\* chunk, in the order the backend emitted them.
RECURSIVE EmittedKeyFrames(_)
EmittedKeyFrames(n) ==
    IF n = 0 THEN <<>>
    ELSE EmittedKeyFrames(n - 1)
         \o ChunkKeyFrames(extract_key_frames_json(chunk_analyses[n]))

\* C15: the merged key-frame list is the concatenation, in chunk order, of
\* each chunk's entries in the order they were emitted (looked at while the
\* analysis loop builds it and when the loop has ended): it has as many
\* entries as the chunks' payloads together, nothing is removed or moved, and
\* each entry carries the title and the description of the emitted one and a
\* timecode.
C15_MergedIsConcatenation ==
    pc \in {"analyze", "combine"} =>
        LET emitted == EmittedKeyFrames(Len(chunk_analyses))
        IN  /\ Len(collected_key_frames) = Len(emitted)
            /\ \A k \in 1..Len(emitted) :
                  /\ DOMAIN collected_key_frames[k].m =
                         {"timecode", "title", "frame_description"}
                  /\ collected_key_frames[k].m.title = emitted[k].m.title
                  /\ collected_key_frames[k].m.frame_description =
                         emitted[k].m.frame_description

\* C15 reached: three chunks gave two key frames each, not in time order,
\* and the merged list holds the six.
C15_Witness ==
    /\ pc = "combine"
    /\ Len(chunk_analyses) = 3
    /\ Len(collected_key_frames) = 6
    /\ collected_key_frames[1].m.title.chunk # collected_key_frames[6].m.title.chunk
    /\ collected_key_frames[1].m.title.at = Tc_00_07
    /\ collected_key_frames[2].m.title.at = Tc_00_00_05

\* The current video is past the cleanup of split_video and not yet over.
BeingProcessed == pc \in {"extract", "analyze", "combine", "save"}

\* C16: the scratch directory is cleared at the start of each video, before
\* any of its chunks is created or analyzed: while a video is processed the
\* directory holds no chunk file and no chunk-analysis file written for an
\* earlier video.
C16_NoEarlierVideoInScratch ==
    BeingProcessed => \A f \in scratch : f.video = vi

(***************************************************************************)
(* Discovery on its own.                                                   *)
(***************************************************************************)

\* The extension of a file name: from its last dot on (empty without one).
ExtensionOf(name) ==
    LET dots == {i \in 1..Len(name) : name[i] = "."}
        last == CHOOSE i \in dots : \A j \in dots : j <= i
    IN  IF dots = {} THEN <<>> ELSE Drop(name, last)

\* The extension is one of the eight, letter case ignored.
HasVideoExtension(name) ==
    \E k \in 1..Len(video_extensions) : Lower(ExtensionOf(name)) = video_extensions[k]

\* C17: find_video_files returns exactly the files of the directory whose
\* extension, compared without regard to letter case, is one of mp4, avi,
\* mov, mkv, wmv, flv, webm, m4v (mixed case included), and no other file.
C17_DiscoversByExtensionAnyCase ==
    (call.fn = "find_video_files" /\ call.returned)
    => {call.ret[k] : k \in 1..Len(call.ret)} = {name \in call.arg : HasVideoExtension(name)}

\* The stages of a video in their order: Segmenting (split, extract),
\* Analyzing, Combining, Persisting (save); 0 between videos.
StageRank(p) ==
    CASE p \in {"split", "extract"} -> 1
      [] p = "analyze" -> 2
      [] p = "combine" -> 3
      [] p = "save"    -> 4
      [] OTHER         -> 0

BetweenVideos(p) == p \in {"main", "done"}

\* One step of the batch keeps the stage order.
StageStep ==
    /\ vi' \in {vi, vi + 1}
    \* the next video starts from main only, after the last one ended
    /\ vi' = vi + 1 =>
           /\ pc = "main" /\ pc' = "split"
           /\ vi = 0 \/ outcome # None
           /\ outcome' = None
    \* inside a video: the same stage or the next one (the analysis loop is
    \* passed without an iteration when no chunk exists)
    /\ (vi' = vi /\ ~BetweenVideos(pc')) =>
           /\ ~BetweenVideos(pc)
           /\ outcome' = None
           /\ \/ StageRank(pc') = StageRank(pc)
              \/ StageRank(pc') = StageRank(pc) + 1
              \/ pc = "extract" /\ pc' = "combine" /\ chunk_paths' = <<>>
    \* a video ends Done after Persisting only, Failed from any stage, and
    \* nothing of it runs afterwards
    /\ (~BetweenVideos(pc) /\ BetweenVideos(pc')) =>
           /\ outcome' # None
           /\ outcome'.ok => pc = "save"
    /\ BetweenVideos(pc) => (vi' = vi + 1 \/ pc' = "done")
    \* chunks are analyzed one at a time in increasing index order, and the
    \* analysis text of a chunk is saved before the next chunk is analyzed
    /\ (pc = "analyze" /\ ~BetweenVideos(pc')) =>
           /\ an_i' = an_i + 1
           /\ chunk_infos'[an_i'].index = an_i
           /\ Len(chunk_analyses') = an_i'
           /\ chunk_analysis_paths' =
                  Append(chunk_analysis_paths, AnalysisPath(chunk_paths[an_i']))
           /\ \E f \in scratch' : f.path = AnalysisPath(chunk_paths[an_i']) /\ f.video = vi

\* C18: each video passes the stages Segmenting, Analyzing (its chunks one
\* at a time in increasing index order, each chunk's analysis text saved
\* before the next chunk's analysis starts), Combining, Persisting, Done in
\* this order; a failure in any stage ends the video as Failed and none of
\* its later stages runs; no stage of the next video starts before the
\* video has reached Done or Failed.
C18_StagesInOrder == [][StageStep]_vars

\* C18 reached: the first video failed, the second one went through all
\* stages with three chunks.
C18_Witness ==
    /\ pc = "done"
    /\ vi = 2
    /\ failed_count = 1
    /\ outcome # None
    /\ outcome.ok
    /\ an_i = 3
    /\ Len(chunk_analysis_paths) = 3

\* The videos whose processing is over.
ProcessedVideos == IF BetweenVideos(pc) THEN vi ELSE vi - 1

\* The counters and the videos processed agree.
CountsMatch ==
    /\ successful_count + failed_count = ProcessedVideos
    /\ pc = "done" => successful_count + failed_count = Len(video_files)

\* A step that ends a video counts it once: as failed when its processing
\* raised, as succeeded otherwise; no other step counts.
CountStep ==
    IF ~BetweenVideos(pc) /\ BetweenVideos(pc')
    THEN IF outcome'.ok
         THEN successful_count' = successful_count + 1 /\ failed_count' = failed_count
         ELSE failed_count' = failed_count + 1 /\ successful_count' = successful_count
    ELSE UNCHANGED countVars

\* C19: after j videos were processed successful_count + failed_count = j; at
\* the final summary the two counts add up to the number of videos
\* discovered; a video is counted as failed exactly when its processing
\* raised, and no video is counted in both.
C19_CountsPartitionVideos == [](CountsMatch) /\ [][CountStep]_vars

\* C19 reached: of two videos the first succeeded and the second raised.
C19_Witness ==
    /\ pc = "done"
    /\ vi = 2
    /\ successful_count = 1
    /\ failed_count = 1
    /\ outcome # None
    /\ ~outcome.ok

\* Some still-image export of the current video failed.
SomeExportFailed == \E k \in 1..Len(image_exports) : ~image_exports[k].ok

\* C20: when the still-image extraction fails for a key frame, that image
\* alone is skipped: the extraction is still attempted for every other key
\* frame, the final text and key_frames.json are still written, and the
\* video is still counted as succeeded.
C20_ExportFailureSkipsOneImage ==
    (SomeExportFailed /\ AllDicts(FramesToExport(kf_json))) =>
        /\ kf_json # None
        /\ Len(image_exports) = Len(FramesToExport(kf_json))
        /\ \A k \in 1..Len(image_exports) : image_exports[k].idx = k
        /\ WrittenFor(vi)
        /\ outcome # None /\ outcome.ok
        /\ successful_count >= 1

\* C20 reached: of six key frames the export of the second failed and the
\* other five images were exported.
C20_Witness ==
    /\ Len(image_exports) = 6
    /\ ~image_exports[2].ok
    /\ \A k \in {1, 3, 4, 5, 6} : image_exports[k].ok
    /\ outcome # None
    /\ outcome.ok

\* C21: for every duration no longer than the nominal chunk, segmentation
\* returns exactly one element, the original video, with no extraction
\* performed, and the descriptor made for it has index 0, total_chunks 1 and
\* is_first = is_last = TRUE.
C21_ShortVideoIsOneChunk ==
    (duration > 0 /\ duration <= chunk_duration_seconds) =>
        /\ chunk_paths = <<VideoPath(video_path)>>
        /\ extract_log = <<>>
        /\ \A f \in scratch : f.video = vi => f.path.kind # "chunk"
        /\ Len(chunk_infos) <= 1
        /\ \A k \in 1..Len(chunk_infos) :
              /\ chunk_infos[k].path = VideoPath(video_path)
              /\ chunk_infos[k].index = 0
              /\ chunk_infos[k].total_chunks = 1
              /\ chunk_infos[k].is_first
              /\ chunk_infos[k].is_last

\* C21 reached: a video of exactly the nominal chunk length was analyzed as
\* one chunk.
C21_Witness ==
    /\ duration = chunk_duration_seconds
    /\ pc = "combine"
    /\ Len(chunk_infos) = 1
    /\ chunk_infos[1].is_first
    /\ chunk_infos[1].is_last

(***************************************************************************)
(* The timecode formatter and the round trip.                              *)
(***************************************************************************)

IsNumericComponent(p) ==
    LET dots == {i \in 1..Len(p) : p[i] = "."}
    IN  /\ Cardinality(dots) <= 1
        /\ Len(p) > Cardinality(dots)
        /\ \A i \in (1..Len(p)) \ dots : IsDigit(p[i])

TruncatedComponent(p) ==
    LET dots == {i \in 1..Len(p) : p[i] = "."}
        stop == IF dots = {} THEN Len(p) ELSE (CHOOSE i \in dots : TRUE) - 1
    IN  DecVal(SubSeq(p, 1, stop))

\* C23: timecode_to_seconds agrees with the reference on every colon-joined
\* input without a range separator: three numeric components give
\* 3600*h + 60*m + s, two give 60*m + s, each component truncated; an input
\* with a non-numeric component or with more than three components gives 0;
\* the call always returns an integer.
C23_AgreesWithReference ==
    (/\ call.fn = "timecode_to_seconds"
     /\ call.returned
     /\ "components" \in DOMAIN call.parts)
    => LET parts == Split(call.arg, ":")
           n     == Len(parts)
           v     == [i \in 1..n |-> TruncatedComponent(parts[i])]
       IN  /\ call.ret \in Int
           /\ (\E i \in 1..n : ~IsNumericComponent(parts[i])) => call.ret = 0
           /\ n > 3 => call.ret = 0
           /\ (n = 3 /\ \A i \in 1..n : IsNumericComponent(parts[i]))
                  => call.ret = 3600 * v[1] + 60 * v[2] + v[3]
           /\ (n = 2 /\ \A i \in 1..n : IsNumericComponent(parts[i]))
                  => call.ret = 60 * v[1] + v[2]

\* The same agreement on the inputs of at most three components, where the
\* function does follow the reference.
C23_AgreesUpToThreeComponents ==
    (/\ call.fn = "timecode_to_seconds"
     /\ call.returned
     /\ "components" \in DOMAIN call.parts
     /\ call.parts.components <= 3)
    => C23_AgreesWithReference

\* A zero-padded hh:mm:ss string: digits, at least two per field, the last two
\* fields of exactly two.
IsPaddedTimecode(s) ==
    /\ Len(s) >= 8
    /\ s[Len(s) - 2] = ":"
    /\ s[Len(s) - 5] = ":"
    /\ \A i \in (1..Len(s)) \ {Len(s) - 2, Len(s) - 5} : IsDigit(s[i])

\* The timecodes the key frames of the chunk texts 1..n should get: the
\* seconds of each emitted timecode plus the start offset of the entry's
\* chunk (descriptor index times nominal chunk seconds), formatted again.
RECURSIVE RebasedTimecodes(_)
RebasedTimecodes(n) ==
    IF n = 0 THEN <<>>
    ELSE LET items == ChunkKeyFrames(extract_key_frames_json(chunk_analyses[n]))
             o     == chunk_infos[n].index * chunk_duration_seconds
         IN  RebasedTimecodes(n - 1)
             \o [k \in 1..Len(items) |->
                    [t |-> DictGet(items[k], "timecode", Tc_00_00_00),
                     o |-> o,
                     rebased |-> seconds_to_timecode(
                                     timecode_to_seconds(
                                         DictGet(items[k], "timecode", Tc_00_00_00)) + o)]]

\* C24: the timecode given to every collected key frame is
\* seconds_to_timecode(timecode_to_seconds(t) + o) for the entry's
\* chunk-relative timecode t and the start offset o >= 0 of its chunk, a
\* zero-padded hh:mm:ss string; "00:00:05" with offset 600 becomes "00:10:05".
C24_RebasedTimecode ==
    pc = "combine" =>
        LET expected == RebasedTimecodes(Len(chunk_analyses))
        IN  /\ Len(collected_key_frames) = Len(expected)
            /\ \A k \in 1..Len(expected) :
                  /\ expected[k].o >= 0
                  /\ collected_key_frames[k].m.timecode = expected[k].rebased
                  /\ IsPaddedTimecode(collected_key_frames[k].m.timecode)
                  /\ (expected[k].t = Tc_00_00_05 /\ expected[k].o = 600)
                         => collected_key_frames[k].m.timecode =
                                <<"0", "0", ":", "1", "0", ":", "0", "5">>

\* C24 reached: the second chunk of a video cut at ten minutes emitted
\* "00:07" and "00:00:05", collected as "00:10:07" and "00:10:05".
C24_Witness ==
    /\ pc = "combine"
    /\ chunk_duration_seconds = 600
    /\ Len(chunk_infos) >= 2
    /\ chunk_infos[2].index = 1
    /\ \E k \in 1..Len(collected_key_frames) :
          /\ k < Len(collected_key_frames)
          /\ collected_key_frames[k].m.title.chunk = 1
          /\ collected_key_frames[k].m.title.at = Tc_00_07
          /\ collected_key_frames[k].m.timecode =
                 <<"0", "0", ":", "1", "0", ":", "0", "7">>
          /\ collected_key_frames[k + 1].m.title.at = Tc_00_00_05
          /\ collected_key_frames[k + 1].m.timecode =
                 <<"0", "0", ":", "1", "0", ":", "0", "5">>

\* C25: the base delays slept before the 1st, 2nd, 3rd, 4th and 5th retry are
\* 2, 4, 8, 16 and 32 seconds: the k-th sleep of a call has base delay 2^k,
\* and each is twice the one before.
C25_BaseDelaysFromTwo ==
    \A k \in 1..Len(sleeps) :
        /\ k <= max_retries
        /\ sleeps[k] = 2 ^ k
        /\ k > 1 => sleeps[k] = 2 * sleeps[k - 1]

\* The part of it that holds: at most five sleeps, strictly increasing, each
\* twice the one before.
C25_BaseDelaysDouble ==
    /\ Len(sleeps) <= max_retries
    /\ \A k \in 2..Len(sleeps) : sleeps[k] = 2 * sleeps[k - 1] /\ sleeps[k] > sleeps[k - 1]

\* C26: for every text without a fenced block that holds, between a prefix
\* and a suffix of prose, an object with key "key_frames", the extractor
\* returns the parsed object when its key_frames is a list (of objects, with
\* nested braces, too), and returns None only when the embedded text is not a
\* parsable object with a key_frames key.
C26_EmbeddedObjectExtracted ==
    (/\ call.fn = "extract_key_frames_json"
     /\ call.returned
     /\ "embedded" \in DOMAIN call.parts)
    => /\ HoldsKeyFramesList(call.parts.embedded)
              => call.ret = json_loads(call.parts.embedded).val
       /\ call.ret = None
              => ~(/\ json_loads(call.parts.embedded).ok
                   /\ IsDictWithKeyFrames(json_loads(call.parts.embedded).val))

\* The same for the embedded objects without a brace inside them, which the
\* brace scan does find.
C26_FlatObjectExtracted ==
    (/\ call.fn = "extract_key_frames_json"
     /\ call.returned
     /\ "embedded" \in DOMAIN call.parts
     /\ ~Contains(<<TLBrace>>, Tail(call.parts.embedded)))
    => C26_EmbeddedObjectExtracted

\* split_video has run its loop for the current video, which is longer than
\* one chunk, and every extraction failed.
AllExtractionsFailed ==
    /\ duration > chunk_duration_seconds
    /\ pc \notin {"split", "extract"}
    /\ Len(extract_log) = num_chunks
    /\ \A k \in 1..Len(extract_log) : ~extract_log[k].ok

\* While and after such a video is processed: no descriptor was handed to the
\* analyzer, no text came back, no synthesis was requested, no final
\* document was written for it; it ends as failed and main is at its loop
\* header again, with the next video to take when there is one.
NothingAnalyzedOrWritten ==
    AllExtractionsFailed =>
        /\ chunk_paths = <<>>
        /\ chunk_infos = <<>>
        /\ chunk_analyses = <<>>
        /\ combine_calls = <<>>
        /\ ~WrittenFor(vi)
        /\ kf_json = None
        /\ pc \in {"combine", "main", "done"}
        /\ pc = "combine" => outcome = None
        /\ pc \in {"main", "done"} =>
               /\ outcome # None
               /\ ~outcome.ok
               /\ failed_count >= 1
        /\ pc = "main" => vi < Len(video_files) /\ ENABLED MainNext
        /\ pc = "done" => vi = Len(video_files)

\* The step that ends such a video counts it as failed, and as nothing else.
FailedVideoCounted ==
    (AllExtractionsFailed /\ pc = "combine") =>
        /\ failed_count' = failed_count + 1
        /\ successful_count' = successful_count
        /\ final_writes' = final_writes
        /\ vi' = vi
        /\ pc' = (IF vi < Len(video_files) THEN "main" ELSE "done")

\* C27: when a video is longer than the nominal chunk and every chunk
\* extraction fails, no backend call is made for it, no final document is
\* written for it, main counts it as failed, and the batch goes on with the
\* next video.
C27_AllExtractionsFailed ==
    [](NothingAnalyzedOrWritten) /\ [][FailedVideoCounted]_vars

\* C27 reached: the first of two videos lost all three of its chunks, was
\* counted as failed, and main is about to take the second video.
C27_Witness ==
    /\ AllExtractionsFailed
    /\ Len(extract_log) = 3
    /\ Len(video_files) = 2
    /\ vi = 1
    /\ pc = "main"
    /\ failed_count = 1
    /\ successful_count = 0
    /\ final_writes = <<>>
    /\ ENABLED MainNext

\* What a retry loop shows for a sequence of outcomes, whichever adapter runs
\* it: one sleep per rate-limited invocation that is not the last allowed
\* one, the k-th with base delay 2^(k-1); the call returns with a success,
\* raises with an other error or with the rate limit of the last allowed
\* attempt, and is at its next try otherwise.
ExpectedSleeps(outs) ==
    LET n == Cardinality({k \in 1..Len(outs) : outs[k] = "rate-limited" /\ k <= max_retries})
    IN  [k \in 1..n |-> 2 ^ (k - 1)]

ExpectedEnd(outs) ==
    IF Len(outs) = 0 THEN "call"
    ELSE IF outs[Len(outs)] = "success" THEN "returned"
    ELSE IF outs[Len(outs)] = "other error" THEN "raised"
    ELSE IF Len(outs) = max_retries + 1 THEN "raised"
    ELSE "call"

\* C28: the retry loops of the two adapters are observationally equivalent.
\* For every sequence of outcomes (success, rate-limited, other error, as the
\* running loop classified them) the number of invocations, the sleeps with
\* their base delays and the end of the call (the result, or the exception
\* of the last invocation raised again) are one function of the sequence,
\* the same for GeminiAnalyzer and OpenRouterAnalyzer.
C28_LoopsEquivalent ==
    /\ backend \in {"gemini", "openrouter"}
    /\ invocations = Len(outcomes)
    /\ \A k \in 1..(Len(outcomes) - 1) : outcomes[k] = "rate-limited"
    /\ sleeps = ExpectedSleeps(outcomes)
    /\ rpc = ExpectedEnd(outcomes)
    /\ rpc = "raised" => last_exception # None
    /\ (rpc = "returned" /\ Len(outcomes) = 1) => last_exception = None

\* C28 reached: the OpenRouter loop took two errors as rate limits and a
\* third as another error, and ended as the Gemini loop does on that
\* sequence: three invocations, sleeps of 1 and 2, the third error raised.
C28_Witness ==
    /\ backend = "openrouter"
    /\ outcomes = <<"rate-limited", "rate-limited", "other error">>
    /\ invocations = 3
    /\ sleeps = <<1, 2>>
    /\ rpc = "raised"
    /\ last_exception.msg = Msg_timeout

\* The same sequence under the Gemini loop.
C28_WitnessGemini ==
    /\ backend = "gemini"
    /\ outcomes = <<"rate-limited", "rate-limited", "other error">>
    /\ invocations = 3
    /\ sleeps = <<1, 2>>
    /\ rpc = "raised"
    /\ last_exception.cls = "ServiceUnavailable"

====
